---------------------------- MODULE Spec2Model ----------------------------
(***************************************************************************)
(* Model of the multiswap constant-product pool, src/multiswap/src/pool.rs *)
(*                                                                         *)
(* The state is one Pool object.  Every public method of Pool is one       *)
(* action; a method that panics is an action too, and leaves the object    *)
(* with whatever the method had already stored when it panicked (nothing   *)
(* in pool.rs rolls the fields back).                                      *)
(*                                                                         *)
(* Numbers.  Balance is u128 and the wide domain is U256 in the source,    *)
(* and the model keeps both widths: U128_MAX is 2^128 - 1, U256_MAX is     *)
(* 2^256 - 1 and INIT_SHARES_SUPPLY is 10^21.  TLC's own integers are 32   *)
(* bits wide, so a Balance or U256 value is written as the sequence of its *)
(* base-10000 digits ("limbs"), lowest first and without a zero at the     *)
(* top: <<>> is 0, <<5>> is 5, <<0, 0, 0, 0, 0, 10>> is 10^21.  Add, Sub,  *)
(* Mul, Div, Le and Lt are the arithmetic of naturals on that form.        *)
(* Every operation on the wide domain is checked as the uint crate does    *)
(* (`*` and `+` panic on overflow, `/` panics on a zero divisor, as_u128   *)
(* panics when the value does not fit), and native `+=` / `-=` are checked *)
(* as in the profile the repository's test runs under.  The fee, indices   *)
(* and lengths are small and are TLC integers.                             *)
(*                                                                         *)
(* Calls.  The variables call, result and old are not fields of Pool: they *)
(* record the most recent call, its outcome and the fields before it, so   *)
(* that a property can relate the three.  Return ends a call: it drops the *)
(* record and changes no field.                                            *)
(*                                                                         *)
(* Specifications.  The values a pool can hold are not bounded by anything *)
(* short of 2^128, so every run is followed for a number of calls only,    *)
(* which calls_left counts down.  Spec runs the pools of TokenLists (up to *)
(* two tokens) for MaxCalls calls.  SpecThree adds to them a pool of three *)
(* tokens followed for MaxCallsThree calls.  SpecFunded starts from the    *)
(* two-token pools that have received one large first deposit and follows  *)
(* them for MaxCallsFunded calls.                                          *)
(***************************************************************************)
EXTENDS Integers, Sequences, FiniteSets, TLC

\* ---- naturals of any size ----
\* The base of the limbs: the square of a limb fits a TLC integer.
Base == 10000

RECURSIVE FromInt(_)
\* The limbs of a TLC integer n >= 0.
FromInt(n) == IF n = 0 THEN <<>> ELSE <<n % Base>> \o FromInt(n \div Base)
Zero == <<>>
One == <<1>>

RECURSIVE Norm(_)
\* a without the zero limbs at its top.
Norm(a) == IF a = <<>> THEN a
           ELSE IF a[Len(a)] = 0 THEN Norm(SubSeq(a, 1, Len(a) - 1)) ELSE a
Limb(a, i) == IF i <= Len(a) THEN a[i] ELSE 0

RECURSIVE LeFrom(_, _, _)
LeFrom(a, b, i) == IF i = 0 THEN TRUE
                   ELSE IF a[i] # b[i] THEN a[i] < b[i]
                   ELSE LeFrom(a, b, i - 1)
\* a <= b, a < b
Le(a, b) == IF Len(a) # Len(b) THEN Len(a) < Len(b) ELSE LeFrom(a, b, Len(a))
Lt(a, b) == a # b /\ Le(a, b)

RECURSIVE AddFrom(_, _, _, _)
AddFrom(a, b, i, carry) ==
    IF i > Len(a) /\ i > Len(b)
    THEN IF carry = 0 THEN <<>> ELSE <<carry>>
    ELSE LET t == Limb(a, i) + Limb(b, i) + carry
         IN <<t % Base>> \o AddFrom(a, b, i + 1, t \div Base)
\* a + b
Add(a, b) == IF a = <<>> THEN b ELSE IF b = <<>> THEN a ELSE AddFrom(a, b, 1, 0)

RECURSIVE SubFrom(_, _, _, _)
SubFrom(a, b, i, borrow) ==
    IF i > Len(a) THEN <<>>
    ELSE LET t == a[i] - Limb(b, i) - borrow
         IN IF t < 0 THEN <<t + Base>> \o SubFrom(a, b, i + 1, 1)
                     ELSE <<t>> \o SubFrom(a, b, i + 1, 0)
\* a - b, for b <= a
Sub(a, b) == IF b = <<>> THEN a ELSE Norm(SubFrom(a, b, 1, 0))

RECURSIVE MulLimbFrom(_, _, _, _)
MulLimbFrom(a, d, i, carry) ==
    IF i > Len(a)
    THEN IF carry = 0 THEN <<>> ELSE <<carry>>
    ELSE LET t == a[i] * d + carry
         IN <<t % Base>> \o MulLimbFrom(a, d, i + 1, t \div Base)
\* a * d for one limb d
MulLimb(a, d) == IF d = 0 \/ a = <<>> THEN <<>> ELSE MulLimbFrom(a, d, 1, 0)

RECURSIVE Mul(_, _)
\* a * b
Mul(a, b) == IF a = <<>> \/ b = <<>> THEN <<>>
             ELSE LET rest == Mul(a, Tail(b))
                  IN Add(MulLimb(a, b[1]), IF rest = <<>> THEN rest ELSE <<0>> \o rest)

RECURSIVE Digit(_, _, _, _)
\* The largest q in lo..hi with b * q <= r, where b * lo <= r.
Digit(r, b, lo, hi) ==
    IF lo = hi THEN lo
    ELSE LET mid == (lo + hi + 1) \div 2
         IN IF Le(MulLimb(b, mid), r) THEN Digit(r, b, mid, hi)
                                      ELSE Digit(r, b, lo, mid - 1)
\* One step of the long division by b, whose top limb is at least Base / 2:
\* the running remainder r < b takes the limb l below it; the quotient limb
\* and the new remainder.  The quotient of the top limbs is the limb or at
\* most 2 above it.
DivStep(b, r, l) ==
    LET r1 == IF r = <<>> /\ l = 0 THEN <<>> ELSE <<l>> \o r
        m  == Len(r1)
        rt == IF m > Len(b) THEN r1[m] * Base + r1[m - 1] ELSE r1[m]
        qh == IF rt \div b[Len(b)] > Base - 1 THEN Base - 1 ELSE rt \div b[Len(b)]
        d  == IF Lt(r1, b) THEN 0
              ELSE Digit(r1, b, IF qh > 2 THEN qh - 2 ELSE 0, qh)
    IN [q |-> <<d>>, r |-> IF d = 0 THEN r1 ELSE Sub(r1, MulLimb(b, d))]
\* The long division over the limbs lo..hi of a, from hi down, entered with
\* the remainder r < b: the quotient limbs lo..hi and the remainder left.
RECURSIVE DivRange(_, _, _, _, _)
DivRange(a, b, lo, hi, r) ==
    IF ~Lt(r, b)
    THEN [q |-> <<>>, r |-> r]
    ELSE IF lo = hi
    THEN DivStep(b, r, a[lo])
    ELSE LET mid   == (lo + hi) \div 2
             upper == DivRange(a, b, mid + 1, hi, r)
             lower == DivRange(a, b, lo, mid, upper.r)
         IN [q |-> lower.q \o upper.q, r |-> lower.r]
\* floor(a / b) for b # 0: both are scaled by f to make the top limb of the
\* divisor at least Base / 2, which leaves the quotient as it is.
Div(a, b) ==
    IF Lt(a, b) THEN <<>>
    ELSE LET f  == Base \div (b[Len(b)] + 1)
             an == MulLimb(a, f)
             bn == MulLimb(b, f)
         IN Norm(DivRange(an, bn, 1, Len(an), <<>>).q)
\* a mod b for b # 0
Mod(a, b) == Sub(a, Mul(Div(a, b), b))

\* ---- the constants of pool.rs ----
\* u128::MAX, the largest Balance: 2^128 - 1.
U128_MAX == <<1455, 6821, 4317, 4607, 6337, 4634, 938, 6692, 2823, 340>>
\* U256::max_value(), construct_uint! U256(4): 2^256 - 1.
U256_MAX == <<9935, 2963, 9131, 4007, 5758, 394, 564, 6564, 9846, 3269,
              785, 6879, 5008, 7098, 4235, 6195, 3731, 892, 5792, 11>>
FEE_DIVISOR == 1000
MAX_NUM_TOKENS == 10
\* 1_000_000_000_000_000_000_000
INIT_SHARES_SUPPLY == <<0, 0, 0, 0, 0, 10>>

\* ---- bounds of the model ----
\* Calls Spec makes on a pool.
MaxCalls == 3
\* Calls SpecThree makes on its pool of three tokens.
MaxCallsThree == 2
\* Calls SpecFunded makes on a pool after its first deposit.
MaxCallsFunded == 3

\* Amounts passed to the methods: small ones, one above INIT_SHARES_SUPPLY
\* and one that is half of the native domain.
Two == <<2>>
Large == <<0, 0, 0, 0, 0, 20>>
Half == <<5728, 8410, 7158, 7303, 3168, 2317, 469, 8346, 1411, 170>>

\* Account identifiers of liquidity providers and traders.
Accounts == {"alice", "bob"}
\* Fees passed to Pool::new.
Fees == {0, 3}

VARIABLES
    token_account_ids,    \* Vec<AccountId>
    amounts,              \* Vec<Balance>, the reserves
    fee,                  \* u32
    shares,               \* LookupMap<AccountId, Balance>
    shares_total_supply,  \* Balance
    call,                 \* the most recent call: method and arguments
    result,               \* its outcome: ok / panic message, return value
    old,                  \* amounts, shares, shares_total_supply before it
    calls_left            \* calls the run may still make

vars == <<token_account_ids, amounts, fee, shares, shares_total_supply,
          call, result, old, calls_left>>

\* The Pool object as one record.
Self == [token_account_ids |-> token_account_ids, amounts |-> amounts,
         fee |-> fee, shares |-> shares,
         shares_total_supply |-> shares_total_supply]

\* ---- helpers over sequences and maps ----
RECURSIVE SumSeq(_)
SumSeq(s) == IF s = <<>> THEN Zero ELSE Add(Head(s), SumSeq(Tail(s)))

RECURSIVE SumMap(_)
SumMap(f) ==
    IF DOMAIN f = {} THEN Zero
    ELSE LET k == CHOOSE x \in DOMAIN f : TRUE
         IN Add(f[k], SumMap([x \in (DOMAIN f) \ {k} |-> f[x]]))

EmptyMap == [k \in {} |-> Zero]

\* LookupMap::get(key).unwrap_or(0)
GetOr0(c, key) == IF key \in DOMAIN c THEN c[key] ELSE Zero
\* LookupMap::insert
Insert(c, key, v) == [k \in (DOMAIN c) \cup {key} |-> IF k = key THEN v ELSE c[k]]
\* LookupMap::remove
Remove(c, key) == [k \in (DOMAIN c) \ {key} |-> c[k]]

\* ---- outcomes of a method ----
\* A normal return: the object after the call, the returned values, the
\* cross-contract calls (promises) the method created.
Ok(self, ret, promises) ==
    [ok |-> TRUE, err |-> "", self |-> self, ret |-> ret, promises |-> promises]
\* A panic: the object as the method left it, and the panic message.
Panic(self, msg) ==
    [ok |-> FALSE, err |-> msg, self |-> self, ret |-> <<>>, promises |-> <<>>]

ERR_OVERFLOW == "arithmetic operation overflow"
ERR_DIV_ZERO == "division by zero"
ERR_CAST     == "Integer overflow when casting to u128"
ERR_INDEX    == "index out of bounds"
ERR_ADD == "attempt to add with overflow"
ERR_SUB == "attempt to subtract with overflow"

Min(a, b) == IF Le(a, b) THEN a ELSE b

\* ---- Pool::new ----
\* The two assertions of Pool::new.
NewAccepts(tokens, f) == f < FEE_DIVISOR /\ Len(tokens) < MAX_NUM_TOKENS

New(tokens, f) ==
    [token_account_ids |-> tokens,
     amounts |-> [i \in 1..Len(tokens) |-> Zero],
     fee |-> f,
     shares |-> EmptyMap,
     shares_total_supply |-> Zero]

\* The token lists pools are built with.  Token identifiers are numbers;
\* identifier 3 is configured in no pool of Spec.
TokenLists == { <<>>, <<1>>, <<1, 2>> }
\* The arguments Pool::new is called with: the lists and fees above, a list
\* of MAX_NUM_TOKENS tokens and the fee FEE_DIVISOR.
NewTokenLists == TokenLists \cup {[i \in 1..MAX_NUM_TOKENS |-> i]}
NewFees == Fees \cup {FEE_DIVISOR}
\* The token list of the pool SpecThree adds.
ThreeTokens == <<1, 2, 3>>

\* ---- add_to_collection ----
\* A variant that stores the amount instead of adding it to the stored value.
add_to_collection_overwrite(c, key, amount) ==
    [ok |-> TRUE, c |-> Insert(c, key, amount)]

\* c.insert(key, prev_amount + amount), the sum being a checked u128 sum.
add_to_collection(c, key, amount) ==
    LET prev_amount == GetOr0(c, key)
        sum == Add(prev_amount, amount)
    IN IF Lt(U128_MAX, sum)
       THEN [ok |-> FALSE, c |-> c]
       ELSE [ok |-> TRUE, c |-> Insert(c, key, sum)]

\* ---- Pool::add_liquidity ----
\* A variant that assigns each token's quotient to fair_supply instead of
\* lowering fair_supply to it: the last token's quotient is what remains.
RECURSIVE fair_supply_loop_assigns(_, _, _, _)
fair_supply_loop_assigns(self, amts, i, fair_supply) ==
    IF i > Len(self.token_account_ids)
    THEN [ok |-> TRUE, err |-> "", v |-> fair_supply]
    ELSE IF ~Lt(Zero, amts[i])
    THEN [ok |-> FALSE, err |-> "ERR_AMOUNT_ZERO", v |-> Zero]
    ELSE LET product == Mul(amts[i], self.shares_total_supply)
         IN IF Lt(U256_MAX, product)
            THEN [ok |-> FALSE, err |-> ERR_OVERFLOW, v |-> Zero]
            ELSE IF self.amounts[i] = Zero
            THEN [ok |-> FALSE, err |-> ERR_DIV_ZERO, v |-> Zero]
            ELSE fair_supply_loop_assigns(self, amts, i + 1,
                                          Div(product, self.amounts[i]))

\* The first loop of the proportional branch: from token i on, fair_supply is
\* lowered to amounts[i] * shares_total_supply / self.amounts[i].  It stores
\* nothing.
RECURSIVE fair_supply_loop(_, _, _, _)
fair_supply_loop(self, amts, i, fair_supply) ==
    IF i > Len(self.token_account_ids)
    THEN [ok |-> TRUE, err |-> "", v |-> fair_supply]
    ELSE IF ~Lt(Zero, amts[i])
    THEN [ok |-> FALSE, err |-> "ERR_AMOUNT_ZERO", v |-> Zero]
    ELSE LET product == Mul(amts[i], self.shares_total_supply)
         IN IF Lt(U256_MAX, product)
            THEN [ok |-> FALSE, err |-> ERR_OVERFLOW, v |-> Zero]
            ELSE IF self.amounts[i] = Zero
            THEN [ok |-> FALSE, err |-> ERR_DIV_ZERO, v |-> Zero]
            ELSE fair_supply_loop(self, amts, i + 1,
                    Min(fair_supply, Div(product, self.amounts[i])))

\* The second loop of the proportional branch: token by token,
\* self.amounts[i] += self.amounts[i] * fair_supply / shares_total_supply.
\* A panic at token i leaves the tokens before i already increased.
RECURSIVE deposit_loop(_, _, _)
deposit_loop(self, fair_supply, i) ==
    IF i > Len(self.token_account_ids)
    THEN [ok |-> TRUE, err |-> "", self |-> self]
    ELSE LET product == Mul(self.amounts[i], fair_supply)
         IN IF Lt(U256_MAX, product)
            THEN [ok |-> FALSE, err |-> ERR_OVERFLOW, self |-> self]
            ELSE LET amount == Div(product, self.shares_total_supply)
                     sum    == Add(self.amounts[i], amount)
                 IN IF Lt(U128_MAX, amount)
                    THEN [ok |-> FALSE, err |-> ERR_CAST, self |-> self]
                    ELSE IF Lt(U128_MAX, sum)
                    THEN [ok |-> FALSE, err |-> ERR_ADD, self |-> self]
                    ELSE deposit_loop([self EXCEPT !.amounts[i] = sum],
                                      fair_supply, i + 1)

\* The loop of the bootstrap branch: self.amounts[i] += amounts[i].
RECURSIVE bootstrap_loop(_, _, _)
bootstrap_loop(self, amts, i) ==
    IF i > Len(self.token_account_ids)
    THEN [ok |-> TRUE, err |-> "", self |-> self]
    ELSE LET sum == Add(self.amounts[i], amts[i])
         IN IF Lt(U128_MAX, sum)
            THEN [ok |-> FALSE, err |-> ERR_ADD, self |-> self]
            ELSE bootstrap_loop([self EXCEPT !.amounts[i] = sum], amts, i + 1)

\* A variant of the branch that adds the amounts passed to the reserves in
\* the proportional regime too, instead of the recomputed amounts.
mint_branch_pulls_amounts(self, amts) ==
    IF Lt(Zero, self.shares_total_supply)
    THEN LET f == fair_supply_loop(self, amts, 1, U256_MAX)
         IN IF ~f.ok
            THEN [ok |-> FALSE, err |-> f.err, self |-> self, shares |-> Zero]
            ELSE LET b == bootstrap_loop(self, amts, 1)
                 IN IF ~b.ok
                    THEN [ok |-> FALSE, err |-> b.err, self |-> b.self, shares |-> Zero]
                    ELSE IF Lt(U128_MAX, f.v)
                    THEN [ok |-> FALSE, err |-> ERR_CAST, self |-> b.self, shares |-> Zero]
                    ELSE [ok |-> TRUE, err |-> "", self |-> b.self, shares |-> f.v]
    ELSE LET b == bootstrap_loop(self, amts, 1)
         IN [ok |-> b.ok, err |-> b.err, self |-> b.self,
             shares |-> INIT_SHARES_SUPPLY]

\* A variant of the branch whose bootstrap mints the sum of the amounts
\* instead of INIT_SHARES_SUPPLY.
mint_branch_mints_sum(self, amts) ==
    IF Lt(Zero, self.shares_total_supply)
    THEN LET f == fair_supply_loop(self, amts, 1, U256_MAX)
         IN IF ~f.ok
            THEN [ok |-> FALSE, err |-> f.err, self |-> self, shares |-> Zero]
            ELSE LET d == deposit_loop(self, f.v, 1)
                 IN IF ~d.ok
                    THEN [ok |-> FALSE, err |-> d.err, self |-> d.self, shares |-> Zero]
                    ELSE IF Lt(U128_MAX, f.v)
                    THEN [ok |-> FALSE, err |-> ERR_CAST, self |-> d.self, shares |-> Zero]
                    ELSE [ok |-> TRUE, err |-> "", self |-> d.self, shares |-> f.v]
    ELSE LET b == bootstrap_loop(self, amts, 1)
         IN [ok |-> b.ok, err |-> b.err, self |-> b.self,
             shares |-> SumSeq(amts)]

\* A variant that narrows fair_supply by keeping its low 128 bits (low_u128)
\* instead of as_u128.
mint_branch_low_u128(self, amts) ==
    IF Lt(Zero, self.shares_total_supply)
    THEN LET f == fair_supply_loop(self, amts, 1, U256_MAX)
         IN IF ~f.ok
            THEN [ok |-> FALSE, err |-> f.err, self |-> self, shares |-> Zero]
            ELSE LET d == deposit_loop(self, f.v, 1)
                 IN IF ~d.ok
                    THEN [ok |-> FALSE, err |-> d.err, self |-> d.self, shares |-> Zero]
                    ELSE [ok |-> TRUE, err |-> "", self |-> d.self,
                          shares |-> Mod(f.v, Add(U128_MAX, One))]
    ELSE LET b == bootstrap_loop(self, amts, 1)
         IN [ok |-> b.ok, err |-> b.err, self |-> b.self,
             shares |-> INIT_SHARES_SUPPLY]

\* `let shares = if self.shares_total_supply > 0 { ... } else { ... }`:
\* the object after the branch and the number of shares to mint.
mint_branch(self, amts) ==
    IF Lt(Zero, self.shares_total_supply)
    THEN LET f == fair_supply_loop(self, amts, 1, U256_MAX)
         IN IF ~f.ok
            THEN [ok |-> FALSE, err |-> f.err, self |-> self, shares |-> Zero]
            ELSE LET d == deposit_loop(self, f.v, 1)
                 IN IF ~d.ok
                    THEN [ok |-> FALSE, err |-> d.err, self |-> d.self, shares |-> Zero]
                    ELSE IF Lt(U128_MAX, f.v)
                    THEN [ok |-> FALSE, err |-> ERR_CAST, self |-> d.self, shares |-> Zero]
                    ELSE [ok |-> TRUE, err |-> "", self |-> d.self, shares |-> f.v]
    ELSE LET b == bootstrap_loop(self, amts, 1)
         IN [ok |-> b.ok, err |-> b.err, self |-> b.self,
             shares |-> INIT_SHARES_SUPPLY]

\* `self.shares_total_supply += shares; add_to_collection(&mut self.shares,
\* &sender_id, shares); shares` on the outcome m of the branch.
mint_shares(m, sender_id) ==
    IF ~m.ok
    THEN Panic(m.self, m.err)
    ELSE LET total == Add(m.self.shares_total_supply, m.shares)
         IN IF Lt(U128_MAX, total)
            THEN Panic(m.self, ERR_ADD)
            ELSE LET s1 == [m.self EXCEPT !.shares_total_supply = total]
                     a  == add_to_collection(s1.shares, sender_id, m.shares)
                 IN IF ~a.ok
                    THEN Panic(s1, ERR_ADD)
                    ELSE Ok([s1 EXCEPT !.shares = a.c], <<m.shares>>, <<>>)

add_liquidity(self, sender_id, amts) ==
    IF Len(amts) # Len(self.token_account_ids)
    THEN Panic(self, "ERR_WRONG_TOKEN_COUNT")
    ELSE mint_shares(mint_branch(self, amts), sender_id)

\* ---- Pool::remove_liquidity ----
\* A variant that rounds the amount paid up instead of down.
RECURSIVE withdraw_loop_rounds_up(_, _, _, _, _)
withdraw_loop_rounds_up(self, sh, min_amounts, i, res) ==
    IF i > Len(self.token_account_ids)
    THEN [ok |-> TRUE, err |-> "", self |-> self, res |-> res]
    ELSE LET product == Mul(self.amounts[i], sh)
         IN IF Lt(U256_MAX, product)
            THEN [ok |-> FALSE, err |-> ERR_OVERFLOW, self |-> self, res |-> res]
            ELSE IF self.shares_total_supply = Zero
            THEN [ok |-> FALSE, err |-> ERR_DIV_ZERO, self |-> self, res |-> res]
            ELSE LET amount == Div(Add(product, Sub(self.shares_total_supply, One)),
                                   self.shares_total_supply)
                 IN IF Lt(U128_MAX, amount)
                    THEN [ok |-> FALSE, err |-> ERR_CAST, self |-> self, res |-> res]
                    ELSE IF i > Len(min_amounts)
                    THEN [ok |-> FALSE, err |-> ERR_INDEX, self |-> self, res |-> res]
                    ELSE IF ~Le(min_amounts[i], amount)
                    THEN [ok |-> FALSE, err |-> "ERR_MIN_AMOUNT", self |-> self, res |-> res]
                    ELSE IF Lt(self.amounts[i], amount)
                    THEN [ok |-> FALSE, err |-> ERR_SUB, self |-> self, res |-> res]
                    ELSE withdraw_loop_rounds_up(
                             [self EXCEPT !.amounts[i] = Sub(@, amount)],
                             sh, min_amounts, i + 1, Append(res, amount))

\* The loop over the tokens: compute amount, assert it against min_amounts[i],
\* subtract it from self.amounts[i], push it.  A panic at token i leaves the
\* tokens before i already decreased.
RECURSIVE withdraw_loop(_, _, _, _, _)
withdraw_loop(self, sh, min_amounts, i, res) ==
    IF i > Len(self.token_account_ids)
    THEN [ok |-> TRUE, err |-> "", self |-> self, res |-> res]
    ELSE LET product == Mul(self.amounts[i], sh)
         IN IF Lt(U256_MAX, product)
            THEN [ok |-> FALSE, err |-> ERR_OVERFLOW, self |-> self, res |-> res]
            ELSE IF self.shares_total_supply = Zero
            THEN [ok |-> FALSE, err |-> ERR_DIV_ZERO, self |-> self, res |-> res]
            ELSE LET amount == Div(product, self.shares_total_supply)
                 IN IF Lt(U128_MAX, amount)
                    THEN [ok |-> FALSE, err |-> ERR_CAST, self |-> self, res |-> res]
                    ELSE IF i > Len(min_amounts)
                    THEN [ok |-> FALSE, err |-> ERR_INDEX, self |-> self, res |-> res]
                    ELSE IF ~Le(min_amounts[i], amount)
                    THEN [ok |-> FALSE, err |-> "ERR_MIN_AMOUNT", self |-> self, res |-> res]
                    ELSE IF Lt(self.amounts[i], amount)
                    THEN [ok |-> FALSE, err |-> ERR_SUB, self |-> self, res |-> res]
                    ELSE withdraw_loop([self EXCEPT !.amounts[i] = Sub(@, amount)],
                                       sh, min_amounts, i + 1, Append(res, amount))

\* A variant that checks the shares to burn against shares_total_supply
\* instead of the sender's balance.
remove_liquidity_checks_total(self, sender_id, sh, min_amounts) ==
    IF sender_id \notin DOMAIN self.shares
    THEN Panic(self, "ERR_NO_SHARES")
    ELSE LET prev_shares_amount == self.shares[sender_id]
         IN IF ~Le(sh, self.shares_total_supply)
            THEN Panic(self, "ERR_NOT_ENOUGH_SHARES")
            ELSE LET w == withdraw_loop(self, sh, min_amounts, 1, <<>>)
                 IN IF ~w.ok
                    THEN Panic(w.self, w.err)
                    ELSE IF Lt(prev_shares_amount, sh)
                    THEN Panic(w.self, ERR_SUB)
                    ELSE LET s1 == [w.self EXCEPT !.shares =
                                      IF prev_shares_amount = sh
                                      THEN Remove(@, sender_id)
                                      ELSE Insert(@, sender_id,
                                                  Sub(prev_shares_amount, sh))]
                         IN Ok([s1 EXCEPT !.shares_total_supply = Sub(@, sh)],
                               w.res, <<>>)

remove_liquidity(self, sender_id, sh, min_amounts) ==
    IF sender_id \notin DOMAIN self.shares
    THEN Panic(self, "ERR_NO_SHARES")
    ELSE LET prev_shares_amount == self.shares[sender_id]
         IN IF ~Le(sh, prev_shares_amount)
            THEN Panic(self, "ERR_NOT_ENOUGH_SHARES")
            ELSE LET w == withdraw_loop(self, sh, min_amounts, 1, <<>>)
                 IN IF ~w.ok
                    THEN Panic(w.self, w.err)
                    ELSE LET s1 == [w.self EXCEPT !.shares =
                                      IF prev_shares_amount = sh
                                      THEN Remove(@, sender_id)
                                      ELSE Insert(@, sender_id,
                                                  Sub(prev_shares_amount, sh))]
                         IN IF Lt(s1.shares_total_supply, sh)
                            THEN Panic(s1, ERR_SUB)
                            ELSE Ok([s1 EXCEPT !.shares_total_supply = Sub(@, sh)],
                                    w.res, <<>>)

\* ---- Pool::token_index ----
\* position of the first element equal to token_id; 0 stands for the panic
\* of .expect("ERR_MISSING_TOKEN").
token_index(self, token_id) ==
    LET found == { i \in 1..Len(self.token_account_ids) :
                      self.token_account_ids[i] = token_id }
    IN IF found = {} THEN 0
       ELSE CHOOSE i \in found : \A j \in found : i <= j

\* ---- Pool::get_return_idx ----
\* A variant whose divisor leaves FEE_DIVISOR off in_balance.
get_return_idx_unscaled(self, token_in, amount_in, token_out) ==
    LET in_balance  == self.amounts[token_in]
        out_balance == self.amounts[token_out]
        amount_with_fee == Mul(amount_in, FromInt(FEE_DIVISOR - self.fee))
        product == Mul(amount_with_fee, out_balance)
    IN IF ~(Lt(Zero, in_balance) /\ Lt(Zero, out_balance)
              /\ token_in # token_out /\ Lt(Zero, amount_in))
       THEN [ok |-> FALSE, err |-> "ERR_INVALID", v |-> Zero]
       ELSE IF Lt(U256_MAX, product)
       THEN [ok |-> FALSE, err |-> ERR_OVERFLOW, v |-> Zero]
       ELSE [ok |-> TRUE, err |-> "",
             v |-> Div(product, Add(in_balance, amount_with_fee))]

\* A variant that does not take the fee off amount_in.
get_return_idx_no_fee(self, token_in, amount_in, token_out) ==
    LET in_balance  == self.amounts[token_in]
        out_balance == self.amounts[token_out]
        amount_with_fee == Mul(amount_in, FromInt(FEE_DIVISOR))
        product == Mul(amount_with_fee, out_balance)
    IN IF ~(Lt(Zero, in_balance) /\ Lt(Zero, out_balance)
              /\ token_in # token_out /\ Lt(Zero, amount_in))
       THEN [ok |-> FALSE, err |-> "ERR_INVALID", v |-> Zero]
       ELSE IF Lt(U256_MAX, product)
       THEN [ok |-> FALSE, err |-> ERR_OVERFLOW, v |-> Zero]
       ELSE [ok |-> TRUE, err |-> "",
             v |-> Div(product,
                       Add(Mul(FromInt(FEE_DIVISOR), in_balance), amount_with_fee))]

get_return_idx(self, token_in, amount_in, token_out) ==
    LET in_balance  == self.amounts[token_in]
        out_balance == self.amounts[token_out]
    IN IF ~(Lt(Zero, in_balance) /\ Lt(Zero, out_balance)
              /\ token_in # token_out /\ Lt(Zero, amount_in))
       THEN [ok |-> FALSE, err |-> "ERR_INVALID", v |-> Zero]
       ELSE LET amount_with_fee == Mul(amount_in, FromInt(FEE_DIVISOR - self.fee))
                product == Mul(amount_with_fee, out_balance)
                scaled  == Mul(FromInt(FEE_DIVISOR), in_balance)
                divisor == Add(scaled, amount_with_fee)
            IN IF Lt(U256_MAX, amount_with_fee)
               THEN [ok |-> FALSE, err |-> ERR_OVERFLOW, v |-> Zero]
               ELSE IF Lt(U256_MAX, product)
               THEN [ok |-> FALSE, err |-> ERR_OVERFLOW, v |-> Zero]
               ELSE IF Lt(U256_MAX, scaled) \/ Lt(U256_MAX, divisor)
               THEN [ok |-> FALSE, err |-> ERR_OVERFLOW, v |-> Zero]
               ELSE IF divisor = Zero
               THEN [ok |-> FALSE, err |-> ERR_DIV_ZERO, v |-> Zero]
               ELSE LET q == Div(product, divisor)
                    IN IF Lt(U128_MAX, q)
                       THEN [ok |-> FALSE, err |-> ERR_CAST, v |-> Zero]
                       ELSE [ok |-> TRUE, err |-> "", v |-> q]

\* ---- Pool::get_return ----
get_return(self, token_in, amount_in, token_out) ==
    LET in_idx  == token_index(self, token_in)
        out_idx == token_index(self, token_out)
    IN IF in_idx = 0 \/ out_idx = 0
       THEN Panic(self, "ERR_MISSING_TOKEN")
       ELSE LET r == get_return_idx(self, in_idx, amount_in, out_idx)
            IN IF ~r.ok THEN Panic(self, r.err) ELSE Ok(self, <<r.v>>, <<>>)

\* ---- Pool::swap ----
\* A variant that takes amount_out off the reserve of the last token of the
\* list instead of the reserve of token_out.
swap_pays_from_last(self, sender_id, token_in, amount_in, token_out, min_amount_out) ==
    LET in_idx  == token_index(self, token_in)
        out_idx == token_index(self, token_out)
        last    == Len(self.token_account_ids)
    IN IF in_idx = 0 \/ out_idx = 0
       THEN Panic(self, "ERR_MISSING_TOKEN")
       ELSE LET r == get_return_idx(self, in_idx, amount_in, out_idx)
            IN IF ~r.ok
               THEN Panic(self, r.err)
               ELSE IF ~Le(min_amount_out, r.v)
               THEN Panic(self, "ERR_MIN_AMOUNT")
               ELSE IF Lt(U128_MAX, Add(self.amounts[in_idx], amount_in))
               THEN Panic(self, ERR_ADD)
               ELSE LET s1 == [self EXCEPT !.amounts[in_idx] = Add(@, amount_in)]
                    IN IF Lt(s1.amounts[last], r.v)
                       THEN Panic(s1, ERR_SUB)
                       ELSE Ok([s1 EXCEPT !.amounts[last] = Sub(@, r.v)],
                               <<r.v>>,
                               <<[receiver_id |-> sender_id, amount |-> r.v,
                                  token |-> self.token_account_ids[out_idx]]>>)

\* A variant that asks for the transfer of amount_in instead of amount_out.
swap_transfers_amount_in(self, sender_id, token_in, amount_in, token_out, min_amount_out) ==
    LET in_idx  == token_index(self, token_in)
        out_idx == token_index(self, token_out)
    IN IF in_idx = 0 \/ out_idx = 0
       THEN Panic(self, "ERR_MISSING_TOKEN")
       ELSE LET r == get_return_idx(self, in_idx, amount_in, out_idx)
            IN IF ~r.ok
               THEN Panic(self, r.err)
               ELSE IF ~Le(min_amount_out, r.v)
               THEN Panic(self, "ERR_MIN_AMOUNT")
               ELSE IF Lt(U128_MAX, Add(self.amounts[in_idx], amount_in))
               THEN Panic(self, ERR_ADD)
               ELSE LET s1 == [self EXCEPT !.amounts[in_idx] = Add(@, amount_in)]
                    IN IF Lt(s1.amounts[out_idx], r.v)
                       THEN Panic(s1, ERR_SUB)
                       ELSE Ok([s1 EXCEPT !.amounts[out_idx] = Sub(@, r.v)],
                               <<r.v>>,
                               <<[receiver_id |-> sender_id, amount |-> amount_in,
                                  token |-> self.token_account_ids[out_idx]]>>)

swap(self, sender_id, token_in, amount_in, token_out, min_amount_out) ==
    LET in_idx  == token_index(self, token_in)
        out_idx == token_index(self, token_out)
    IN IF in_idx = 0 \/ out_idx = 0
       THEN Panic(self, "ERR_MISSING_TOKEN")
       ELSE LET r == get_return_idx(self, in_idx, amount_in, out_idx)
            IN IF ~r.ok
               THEN Panic(self, r.err)
               ELSE IF ~Le(min_amount_out, r.v)
               THEN Panic(self, "ERR_MIN_AMOUNT")
               ELSE IF Lt(U128_MAX, Add(self.amounts[in_idx], amount_in))
               THEN Panic(self, ERR_ADD)
               ELSE LET s1 == [self EXCEPT !.amounts[in_idx] = Add(@, amount_in)]
                    IN IF Lt(s1.amounts[out_idx], r.v)
                       THEN Panic(s1, ERR_SUB)
                       ELSE Ok([s1 EXCEPT !.amounts[out_idx] = Sub(@, r.v)],
                               <<r.v>>,
                               <<[receiver_id |-> sender_id, amount |-> r.v,
                                  token |-> self.token_account_ids[out_idx]]>>)

\* ---- the state machine ----
\* The amounts vectors passed to a pool of n tokens: every vector of the right
\* length over 0, 1, 2; Large for every token; Half for every token; and a
\* vector that is too long.
AddInputs(n) ==
    [1..n -> {Zero, One, Two}]
        \cup {[i \in 1..n |-> Large], [i \in 1..n |-> Half],
              [i \in 1..(n + 1) |-> One]}
\* min_amounts vectors: no minimum, and a minimum on the last token only.
MinInputs(n) ==
    {[i \in 1..n |-> Zero], [i \in 1..n |-> IF i = n THEN Two ELSE Zero]}
\* Share counts to burn: nothing, one, the sender's whole balance, all the
\* shares there are, and the largest Balance.
BurnInputs(sender_id) ==
    {Zero, One, GetOr0(shares, sender_id), shares_total_supply, U128_MAX}
\* (token_in, token_out): both orders of the pair, the same token twice, and
\* a token that is not configured on either side.
TokenPairs == {<<1, 2>>, <<2, 1>>, <<1, 1>>, <<1, 3>>, <<3, 2>>}
\* amount_in: 0, 1, 2 and the largest Balance.
AmountInInputs == {Zero, One, Two, U128_MAX}
MinOutInputs == {Zero, Two}

Snapshot == [amounts |-> amounts, shares |-> shares,
             shares_total_supply |-> shares_total_supply]

\* No call is in progress: the object is at rest between two transactions.
NoCall == [op |-> "none", sender_id |-> "", amounts |-> <<>>, shares |-> Zero,
           token_in |-> 0, token_out |-> 0, amount_in |-> Zero,
           min_amount_out |-> Zero]
NoResult == [ok |-> TRUE, err |-> "", ret |-> <<>>, promises |-> <<>>]

\* A call of a method with arguments c and outcome r: the object becomes
\* r.self; call, result and old record the call, its outcome and the object
\* as it was before the call.
Step(c, r) ==
    /\ call = NoCall
    /\ calls_left > 0
    /\ calls_left' = calls_left - 1
    /\ amounts' = r.self.amounts
    /\ shares' = r.self.shares
    /\ shares_total_supply' = r.self.shares_total_supply
    /\ token_account_ids' = r.self.token_account_ids
    /\ fee' = r.self.fee
    /\ call' = c
    /\ result' = [ok |-> r.ok, err |-> r.err, ret |-> r.ret, promises |-> r.promises]
    /\ old' = Snapshot

\* The pool self at rest, with n calls to come.
AtRest(self, n) ==
    /\ token_account_ids = self.token_account_ids
    /\ amounts = self.amounts
    /\ fee = self.fee
    /\ shares = self.shares
    /\ shares_total_supply = self.shares_total_supply
    /\ call = NoCall
    /\ result = NoResult
    /\ old = [amounts |-> self.amounts, shares |-> self.shares,
              shares_total_supply |-> self.shares_total_supply]
    /\ calls_left = n

Init ==
    \E tokens \in NewTokenLists, f \in NewFees :
        /\ NewAccepts(tokens, f)
        /\ AtRest(New(tokens, f), MaxCalls)

AddLiquidity ==
    \E sender_id \in Accounts, amts \in AddInputs(Len(token_account_ids)) :
        LET r == add_liquidity(Self, sender_id, amts)
        IN Step([NoCall EXCEPT !.op = "add_liquidity", !.sender_id = sender_id,
                               !.amounts = amts], r)

RemoveLiquidity ==
    \E sender_id \in Accounts :
      \E sh \in BurnInputs(sender_id), mins \in MinInputs(Len(token_account_ids)) :
        LET r == remove_liquidity(Self, sender_id, sh, mins)
        IN Step([NoCall EXCEPT !.op = "remove_liquidity", !.sender_id = sender_id,
                               !.shares = sh, !.amounts = mins], r)

GetReturn ==
    \E pair \in TokenPairs, amount_in \in AmountInInputs :
        LET token_in == pair[1]
            token_out == pair[2]
            r == get_return(Self, token_in, amount_in, token_out)
        IN Step([NoCall EXCEPT !.op = "get_return", !.token_in = token_in,
                               !.token_out = token_out, !.amount_in = amount_in], r)

Swap ==
    \E sender_id \in Accounts, pair \in TokenPairs,
       amount_in \in AmountInInputs, min_amount_out \in MinOutInputs :
        LET token_in == pair[1]
            token_out == pair[2]
            r == swap(Self, sender_id, token_in, amount_in, token_out, min_amount_out)
        IN Step([NoCall EXCEPT !.op = "swap", !.sender_id = sender_id,
                               !.token_in = token_in, !.token_out = token_out,
                               !.amount_in = amount_in,
                               !.min_amount_out = min_amount_out], r)

\* The call is over: its record is dropped and the object, as the call left
\* it, is what the next call starts from.
Return ==
    /\ call # NoCall
    /\ call' = NoCall
    /\ result' = NoResult
    /\ old' = Snapshot
    /\ UNCHANGED <<token_account_ids, amounts, fee, shares, shares_total_supply,
                   calls_left>>

Next == AddLiquidity \/ RemoveLiquidity \/ GetReturn \/ Swap \/ Return

Spec == Init /\ [][Next]_vars

\* Pool::new on three tokens, followed for MaxCallsThree calls.
InitThree ==
    \E f \in Fees :
        /\ NewAccepts(ThreeTokens, f)
        /\ AtRest(New(ThreeTokens, f), MaxCallsThree)

SpecThree == (Init \/ InitThree) /\ [][Next]_vars

\* A two-token pool after its first deposit, of Large of each token by
\* alice, followed for MaxCallsFunded calls.
InitFunded ==
    \E f \in Fees :
        /\ NewAccepts(<<1, 2>>, f)
        /\ LET r == add_liquidity(New(<<1, 2>>, f), "alice", <<Large, Large>>)
           IN r.ok /\ AtRest(r.self, MaxCallsFunded)

SpecFunded == InitFunded /\ [][Next]_vars

\* ---- vocabulary of the properties ----
NumTokens == Len(token_account_ids)
Tokens == 1..NumTokens
Configured(t) == \E i \in Tokens : token_account_ids[i] = t
\* The index of a configured token.
Idx(t) == CHOOSE i \in Tokens : token_account_ids[i] = t
\* The smallest element of a non-empty set of numbers.
Least(S) == CHOOSE m \in S : \A x \in S : Le(m, x)
\* The most recent call was method op and returned normally.
Returned(op) == call.op = op /\ result.ok
\* floor(a * b / c) on naturals of any size.
MulDiv(a, b, c) == Div(Mul(a, b), c)

\* C1: in every reachable state shares_total_supply equals the sum of the
\* balances stored in the shares map.
C1_TotalIsSumOfShares == shares_total_supply = SumMap(shares)

\* C1 witness: a burn has just succeeded and two providers still hold shares.
C1_Witness ==
    /\ Returned("remove_liquidity")
    /\ Lt(Zero, call.shares)
    /\ DOMAIN shares = Accounts
    /\ \A k \in Accounts : Lt(Zero, shares[k])

\* C2: a call that fails leaves reserves, shares and total_shares exactly as
\* they were before the call.
C2_FailedCallChangesNothing ==
    (call # NoCall /\ ~result.ok) => Snapshot = old

\* C3: total_shares = 0, an empty shares map and all reserves zero are
\* equivalent in every reachable state (stated for pools of two tokens or more).
C3_EmptyPoolEquivalence ==
    NumTokens >= 2 =>
        /\ (shares_total_supply = Zero) <=> (DOMAIN shares = {})
        /\ (shares_total_supply = Zero) <=> (\A i \in Tokens : amounts[i] = Zero)

\* C4: every entry of the shares map has a balance strictly greater than zero.
C4_NoZeroEntry == \A k \in DOMAIN shares : Lt(Zero, shares[k])

\* C5: a successful add_liquidity that increases total_shares strictly
\* increases every reserve (stated for the proportional regime of pools of two
\* tokens or more).
C5_MintIsBacked ==
    (/\ Returned("add_liquidity")
     /\ NumTokens >= 2
     /\ Lt(Zero, old.shares_total_supply)
     /\ Lt(old.shares_total_supply, shares_total_supply))
    => \A i \in Tokens : Lt(old.amounts[i], amounts[i])

\* C6: a successful swap does not decrease the product of the reserves of
\* token_in and token_out, and strictly increases it when fee > 0.
C6_SwapProduct ==
    Returned("swap") =>
        LET i == Idx(call.token_in)
            o == Idx(call.token_out)
            before == Mul(old.amounts[i], old.amounts[o])
            after  == Mul(amounts[i], amounts[o])
        IN /\ Le(before, after)
           /\ fee > 0 => Lt(before, after)

\* C6 witness: a swap under a positive fee has paid out a positive amount.
C6_Witness ==
    /\ Returned("swap")
    /\ fee > 0
    /\ Lt(Zero, result.ret[1])

\* C7: in the proportional regime a successful add_liquidity mints
\* S = min_i floor(amounts[i] * total_shares / reserves[i]), increases each
\* reserve by floor(reserves[i] * S / total_shares) of the values before the
\* call, increases total_shares and the provider's balance by S, returns S.
C7_ProportionalMint ==
    (Returned("add_liquidity") /\ Lt(Zero, old.shares_total_supply)) =>
        LET T == old.shares_total_supply
            S == Least({ MulDiv(call.amounts[i], T, old.amounts[i]) : i \in Tokens })
        IN /\ NumTokens >= 1
           /\ result.ret = <<S>>
           /\ \A i \in Tokens :
                 amounts[i] = Add(old.amounts[i], MulDiv(old.amounts[i], S, T))
           /\ shares_total_supply = Add(T, S)
           /\ shares = Insert(old.shares, call.sender_id,
                              Add(GetOr0(old.shares, call.sender_id), S))

\* C7 witness: a proportional deposit minted shares and some reserve grew by
\* less than the amount passed for it.
C7_Witness ==
    /\ Returned("add_liquidity")
    /\ Lt(Zero, old.shares_total_supply)
    /\ Lt(Zero, result.ret[1])
    /\ \E i \in Tokens : Lt(amounts[i], Add(old.amounts[i], call.amounts[i]))
    /\ \E i \in Tokens : Lt(old.amounts[i], amounts[i])

\* C8: with total_shares = 0, add_liquidity with one amount per token
\* succeeds, sets every reserve to the amount passed, mints exactly
\* INIT_SHARES_SUPPLY shares to the provider, sets total_shares to it and
\* returns it.
C8_BootstrapMint ==
    (/\ call.op = "add_liquidity"
     /\ old.shares_total_supply = Zero
     /\ Len(call.amounts) = NumTokens)
    => /\ result.ok
       /\ amounts = call.amounts
       /\ result.ret = <<INIT_SHARES_SUPPLY>>
       /\ shares_total_supply = INIT_SHARES_SUPPLY
       /\ shares = Insert(old.shares, call.sender_id, INIT_SHARES_SUPPLY)

\* C8 witness: a bootstrap deposit with two different positive amounts.
C8_Witness ==
    /\ Returned("add_liquidity")
    /\ old.shares_total_supply = Zero
    /\ NumTokens = 2
    /\ Lt(Zero, amounts[1])
    /\ Lt(amounts[1], amounts[2])

\* C9: a successful remove_liquidity pays floor(reserves[i] * shares /
\* total_shares) >= min_amounts[i] of every token, takes it off the reserve,
\* takes the shares off the provider's balance and off total_shares; burning
\* all outstanding shares pays the full reserves, and leaves total_shares = 0
\* and an empty shares map.
C9_Burn ==
    Returned("remove_liquidity") =>
        LET T == old.shares_total_supply
            out(i) == MulDiv(old.amounts[i], call.shares, T)
        IN /\ Lt(Zero, T)
           /\ Len(result.ret) = NumTokens
           /\ \A i \in Tokens :
                 /\ result.ret[i] = out(i)
                 /\ Le(call.amounts[i], result.ret[i])
                 /\ Add(amounts[i], out(i)) = old.amounts[i]
           /\ Add(shares_total_supply, call.shares) = T
           /\ Add(GetOr0(shares, call.sender_id), call.shares)
                 = old.shares[call.sender_id]
           /\ \A k \in Accounts \ {call.sender_id} :
                 /\ (k \in DOMAIN shares) <=> (k \in DOMAIN old.shares)
                 /\ GetOr0(shares, k) = GetOr0(old.shares, k)
           /\ call.shares = T =>
                 /\ result.ret = old.amounts
                 /\ shares_total_supply = Zero
                 /\ DOMAIN shares = {}

\* amount_in less the fee, times FEE_DIVISOR.
AmountWithFee == Mul(call.amount_in, FromInt(FEE_DIVISOR - fee))
\* The value of the quote formula on the reserves before the call.
QuoteBefore ==
    LET rin  == old.amounts[Idx(call.token_in)]
        rout == old.amounts[Idx(call.token_out)]
    IN Div(Mul(AmountWithFee, rout),
           Add(Mul(FromInt(FEE_DIVISOR), rin), AmountWithFee))
\* The call names two different configured tokens with positive reserves and
\* a positive amount_in.
QuotePre ==
    /\ Configured(call.token_in)
    /\ Configured(call.token_out)
    /\ call.token_in # call.token_out
    /\ Lt(Zero, call.amount_in)
    /\ Lt(Zero, old.amounts[Idx(call.token_in)])
    /\ Lt(Zero, old.amounts[Idx(call.token_out)])
\* amount_with_fee * reserve_out fits the wide domain.
QuoteFits ==
    Le(Mul(AmountWithFee, old.amounts[Idx(call.token_out)]), U256_MAX)

\* C10 as stated: under QuotePre get_return returns the formula's value, and
\* a swap returns the value get_return returns in the same state.
C10_QuoteAsStated ==
    /\ (call.op = "get_return" /\ QuotePre) =>
          (result.ok /\ result.ret = <<QuoteBefore>>)
    /\ Returned("swap") => result.ret = <<QuoteBefore>>

\* C10 amended: under QuotePre get_return returns the formula's value when
\* amount_with_fee * reserve_out fits the wide domain and fails otherwise;
\* a swap that succeeds returns the value of the formula in the state it
\* started from.
C10_Quote ==
    /\ (call.op = "get_return" /\ QuotePre /\ QuoteFits) =>
          (result.ok /\ result.ret = <<QuoteBefore>>)
    /\ (call.op = "get_return" /\ QuotePre /\ ~QuoteFits) => ~result.ok
    /\ Returned("swap") => (QuotePre /\ result.ret = <<QuoteBefore>>)

\* C10 witness: a quote under a positive fee whose value the floor rounds down.
C10_Witness ==
    /\ Returned("get_return")
    /\ fee > 0
    /\ Lt(Zero, result.ret[1])
    /\ LET rin  == old.amounts[Idx(call.token_in)]
           rout == old.amounts[Idx(call.token_out)]
       IN Mod(Mul(AmountWithFee, rout),
              Add(Mul(FromInt(FEE_DIVISOR), rin), AmountWithFee)) # Zero

\* C11: a successful swap adds amount_in to the reserve of token_in, takes the
\* returned amount off the reserve of token_out and asks for exactly one
\* transfer, of that amount of token_out to the sender; a failed swap and
\* every other call ask for no transfer.
C11_SwapTransfers ==
    /\ Returned("swap") =>
          LET i == Idx(call.token_in)
              o == Idx(call.token_out)
          IN /\ Len(result.ret) = 1
             /\ i # o
             /\ amounts[i] = Add(old.amounts[i], call.amount_in)
             /\ Add(amounts[o], result.ret[1]) = old.amounts[o]
             /\ \A j \in Tokens \ {i, o} : amounts[j] = old.amounts[j]
             /\ result.promises =
                   <<[receiver_id |-> call.sender_id, amount |-> result.ret[1],
                      token |-> call.token_out]>>
    /\ ~Returned("swap") => result.promises = <<>>

\* C11 witness: a swap by bob has paid out a positive amount that differs
\* from amount_in.
C11_Witness ==
    /\ Returned("swap")
    /\ call.sender_id = "bob"
    /\ Lt(Zero, result.ret[1])
    /\ result.ret[1] # call.amount_in

\* The causes for which a quote of amount_in of token_in for token_out must
\* fail in the pool self, by the names the specification gives them.
QuoteCauses(self, token_in, amount_in, token_out) ==
    LET in_idx  == token_index(self, token_in)
        out_idx == token_index(self, token_out)
    IN  (IF in_idx = 0 \/ out_idx = 0 THEN {"UnknownToken"} ELSE {})
        \cup (IF token_in = token_out THEN {"InvalidPair"} ELSE {})
        \cup (IF amount_in = Zero THEN {"ZeroAmount"} ELSE {})
        \cup (IF in_idx # 0 /\ out_idx # 0
                 /\ (self.amounts[in_idx] = Zero \/ self.amounts[out_idx] = Zero)
              THEN {"EmptyReserve"} ELSE {})
\* The inputs of a quote.
QuoteInputs == TokenPairs \X AmountInInputs

\* C12 as stated: (a) the error of a failed quote tells its cause: two quotes
\* in the same state that must fail for one cause each, and not the same one,
\* fail with different errors; (b) a quote and a swap fail whenever a cause is
\* present, a quote succeeds when none is and the product fits the wide
\* domain; (c) a swap whose quote is below min_amount_out fails, and a
\* successful swap returns at least min_amount_out.
C12_ErrorsAsStated ==
    /\ \A x, y \in QuoteInputs :
          LET cx == QuoteCauses(Self, x[1][1], x[2], x[1][2])
              cy == QuoteCauses(Self, y[1][1], y[2], y[1][2])
              rx == get_return(Self, x[1][1], x[2], x[1][2])
              ry == get_return(Self, y[1][1], y[2], y[1][2])
          IN (Cardinality(cx) = 1 /\ Cardinality(cy) = 1 /\ cx # cy) =>
                (~rx.ok /\ ~ry.ok /\ rx.err # ry.err)
    /\ call.op \in {"get_return", "swap"} =>
          LET c == QuoteCauses([Self EXCEPT !.amounts = old.amounts],
                               call.token_in, call.amount_in, call.token_out)
          IN /\ c # {} => ~result.ok
             /\ (c = {} /\ QuoteFits /\ call.op = "get_return") => result.ok
             /\ (c = {} /\ QuoteFits /\ call.op = "swap"
                   /\ Lt(QuoteBefore, call.min_amount_out)) =>
                   (~result.ok /\ result.err = "ERR_MIN_AMOUNT")
    /\ Returned("swap") => Le(call.min_amount_out, result.ret[1])

\* C13: remove_liquidity fails with ERR_NO_SHARES when the sender has no
\* entry in the shares map and with ERR_NOT_ENOUGH_SHARES when its balance is
\* less than the shares to burn, in both cases changing nothing; a
\* remove_liquidity that succeeds burned at most the sender's balance.
C13_NoOverBurn ==
    call.op = "remove_liquidity" =>
       /\ call.sender_id \notin DOMAIN old.shares =>
             (~result.ok /\ result.err = "ERR_NO_SHARES" /\ Snapshot = old)
       /\ (call.sender_id \in DOMAIN old.shares
             /\ Lt(old.shares[call.sender_id], call.shares)) =>
             (~result.ok /\ result.err = "ERR_NOT_ENOUGH_SHARES" /\ Snapshot = old)
       /\ result.ok =>
             /\ call.sender_id \in DOMAIN old.shares
             /\ Le(call.shares, old.shares[call.sender_id])
             /\ Add(GetOr0(shares, call.sender_id), call.shares)
                   = old.shares[call.sender_id]

\* C13 witness: a provider with a positive balance, one of two share holders,
\* asked to burn more than it, and no more than there are, and was refused.
C13_Witness ==
    /\ call.op = "remove_liquidity"
    /\ ~result.ok
    /\ result.err = "ERR_NOT_ENOUGH_SHARES"
    /\ Cardinality(DOMAIN old.shares) = 2
    /\ Lt(Zero, old.shares[call.sender_id])
    /\ Le(call.shares, old.shares_total_supply)

\* What a call, failed or not, leaves alone: get_return everything; swap the
\* shares, shares_total_supply and the reserve of every token that is neither
\* token_in nor token_out; add_liquidity and remove_liquidity the entry, or
\* the absence of an entry, of every account but the sender.
FrameOfCall ==
    /\ call.op = "get_return" => Snapshot = old
    /\ call.op = "swap" =>
          /\ shares = old.shares
          /\ shares_total_supply = old.shares_total_supply
          /\ \A i \in 1..NumTokens :
                token_account_ids[i] \notin {call.token_in, call.token_out}
                   => amounts[i] = old.amounts[i]
    /\ call.op \in {"add_liquidity", "remove_liquidity"} =>
          \A k \in Accounts \ {call.sender_id} :
             /\ k \in DOMAIN shares <=> k \in DOMAIN old.shares
             /\ GetOr0(shares, k) = GetOr0(old.shares, k)

\* C14: every call keeps to FrameOfCall, and no step changes
\* token_account_ids or fee.
C14_Frame ==
    /\ []FrameOfCall
    /\ [][token_account_ids' = token_account_ids /\ fee' = fee]_vars

\* C14 witness: in a pool of three tokens with all reserves positive a swap
\* has paid out a positive amount while one account holds shares.
C14_Witness ==
    /\ Returned("swap")
    /\ NumTokens = 3
    /\ \A i \in 1..NumTokens : Lt(Zero, old.amounts[i])
    /\ Lt(Zero, result.ret[1])
    /\ Lt(Zero, shares_total_supply)

\* C15: Pool::new refuses a fee >= FEE_DIVISOR and a list of MAX_NUM_TOKENS
\* tokens or more, and otherwise returns a pool with zero reserves, zero
\* shares_total_supply and no shares; every pool there is has between 2 and
\* MAX_NUM_TOKENS tokens and a fee below FEE_DIVISOR.
C15_Constructible ==
    /\ \A tokens \in NewTokenLists, f \in NewFees :
          /\ NewAccepts(tokens, f)
                <=> ~(f >= FEE_DIVISOR \/ Len(tokens) >= MAX_NUM_TOKENS)
          /\ NewAccepts(tokens, f) =>
                /\ New(tokens, f).token_account_ids = tokens
                /\ New(tokens, f).fee = f
                /\ New(tokens, f).amounts = [j \in 1..Len(tokens) |-> Zero]
                /\ New(tokens, f).shares_total_supply = Zero
                /\ New(tokens, f).shares = EmptyMap
    /\ NumTokens \in 2..MAX_NUM_TOKENS
    /\ fee \in 0..(FEE_DIVISOR - 1)

\* Every stored and every returned value is a native value.
NativeValues ==
    /\ \A i \in Tokens : Le(amounts[i], U128_MAX)
    /\ Le(shares_total_supply, U128_MAX)
    /\ \A k \in DOMAIN shares : Le(shares[k], U128_MAX)
    /\ \A i \in 1..Len(result.ret) : Le(result.ret[i], U128_MAX)

\* The fair supply of a proportional add_liquidity, computed without a bound
\* on the numbers, on the reserves before the call.
FairSupplyBefore ==
    Least({ MulDiv(call.amounts[i], old.shares_total_supply, old.amounts[i])
               : i \in Tokens })

\* C16: each multiply-then-divide gives the exact floor of the quotient or
\* the call fails.  A call that returns has stored and returned the exact
\* values; a proportional add_liquidity whose fair supply is not a native
\* value and a quote whose product is not a wide value fail; no stored or
\* returned value is outside the native domain.
C16_ExactOrFails ==
    /\ NativeValues
    /\ (call.op = "add_liquidity" /\ Lt(Zero, old.shares_total_supply)) =>
          IF NumTokens = 0
          THEN ~result.ok
          ELSE /\ result.ok =>
                    /\ result.ret = <<FairSupplyBefore>>
                    /\ \A i \in Tokens :
                          amounts[i] = Add(old.amounts[i],
                                           MulDiv(old.amounts[i], FairSupplyBefore,
                                                  old.shares_total_supply))
               /\ (/\ Len(call.amounts) = NumTokens
                   /\ \A i \in Tokens :
                         Lt(Zero, call.amounts[i]) /\ Lt(Zero, old.amounts[i])
                   /\ Lt(U128_MAX, FairSupplyBefore)) => ~result.ok
    /\ (Returned("remove_liquidity") /\ NumTokens >= 1) =>
          /\ Lt(Zero, old.shares_total_supply)
          /\ \A i \in Tokens :
                result.ret[i] = MulDiv(old.amounts[i], call.shares,
                                       old.shares_total_supply)
    /\ (call.op \in {"get_return", "swap"} /\ result.ok) =>
          (QuoteFits /\ result.ret = <<QuoteBefore>>)
    /\ (call.op \in {"get_return", "swap"} /\ QuotePre /\ ~QuoteFits) =>
          ~result.ok

\* C16 witness: a proportional add_liquidity on two tokens failed on the
\* narrowing of a fair supply that is not a native value.
C16_Witness ==
    /\ call.op = "add_liquidity"
    /\ ~result.ok
    /\ result.err = ERR_CAST
    /\ NumTokens = 2
    /\ Lt(U128_MAX, FairSupplyBefore)

\* The share counts at which C17 is looked at for a provider with balance b:
\* one share, two shares and the whole balance.
BurnSamples(b) == {s \in {One, Two, b} : Lt(Zero, s) /\ Le(s, b)}

\* C17: an add_liquidity does not lower what remove_liquidity would pay any
\* other provider: for every other account with balance b, every s in
\* BurnSamples(b) and every token i, floor(reserves[i] * s / total_shares)
\* after the call is no less than before it.
C17_NoDilution ==
    (call.op = "add_liquidity" /\ Lt(Zero, old.shares_total_supply)) =>
        \A k \in DOMAIN old.shares \ {call.sender_id} :
           \A s \in BurnSamples(old.shares[k]) :
              \A i \in Tokens :
                 Le(MulDiv(old.amounts[i], s, old.shares_total_supply),
                    MulDiv(amounts[i], s, shares_total_supply))

\* C18: a proportional add_liquidity that succeeds raises no reserve by more
\* than the amount passed for its token, and lowers none.
C18_DepositWithinAmounts ==
    (Returned("add_liquidity") /\ Lt(Zero, old.shares_total_supply)) =>
        /\ Len(call.amounts) = NumTokens
        /\ \A i \in Tokens :
              /\ Le(old.amounts[i], amounts[i])
              /\ Le(amounts[i], Add(old.amounts[i], call.amounts[i]))

\* C18 witness: a proportional add_liquidity raised one reserve by exactly the
\* amount passed for it and another one by less, the amounts passed being
\* different.
C18_Witness ==
    /\ Returned("add_liquidity")
    /\ Lt(Zero, old.shares_total_supply)
    /\ \E i, j \in Tokens :
          /\ call.amounts[i] # call.amounts[j]
          /\ amounts[i] = Add(old.amounts[i], call.amounts[i])
          /\ Lt(amounts[j], Add(old.amounts[j], call.amounts[j]))

\* C19: a remove_liquidity by an account that has an entry in the shares map,
\* of no more shares than its balance and with every minimum zero, succeeds.
C19_BurnSucceeds ==
    (/\ call.op = "remove_liquidity"
     /\ call.sender_id \in DOMAIN old.shares
     /\ Le(call.shares, old.shares[call.sender_id])
     /\ call.amounts = [i \in Tokens |-> Zero]) => result.ok

\* What remove_liquidity would do right after the call, for the shares the
\* call returned, by the same account and with every minimum zero.
BurnBack ==
    remove_liquidity(Self, call.sender_id, result.ret[1], [i \in Tokens |-> Zero])

\* C20: right after a proportional add_liquidity that minted S shares, a
\* remove_liquidity of S shares by the same account with every minimum zero
\* succeeds and pays, for each token, no more than the add_liquidity raised
\* its reserve by.
C20_RoundTrip ==
    (Returned("add_liquidity") /\ Lt(Zero, old.shares_total_supply)) =>
        /\ BurnBack.ok
        /\ Len(BurnBack.ret) = NumTokens
        /\ \A i \in Tokens : Le(Add(old.amounts[i], BurnBack.ret[i]), amounts[i])

\* C20 witness: a proportional add_liquidity by an account that held no
\* shares minted some and raised a reserve, by less than the amount passed
\* for some token, and burning the shares again pays some token out.
C20_Witness ==
    /\ Returned("add_liquidity")
    /\ Lt(Zero, old.shares_total_supply)
    /\ call.sender_id \notin DOMAIN old.shares
    /\ Lt(Zero, result.ret[1])
    /\ BurnBack.ok
    /\ \E i \in Tokens : Lt(Zero, BurnBack.ret[i])
    /\ \E i \in Tokens : Lt(amounts[i], Add(old.amounts[i], call.amounts[i]))

=============================================================================
